---------------------------- MODULE Spec2Model ----------------------------
(***************************************************************************)
(* OpenClaw role-based onboarding wizard: src/lib/wizard.js (runWizard and *)
(* its steps) and src/lib/setup.js (generateSetup and its renderers).      *)
(*                                                                         *)
(* src/lib/wizard.js holds two revisions of the wizard one after the other *)
(* (lines 1-232 and 233-464).  They differ in the skills step of           *)
(* setupWorkspace (installRequiredSkills / configureSkillsForRole) and in  *)
(* displaySuccess.  The variable rev says which revision runs.             *)
(*                                                                         *)
(* Strings are TLA+ strings, so String.prototype.includes is a real        *)
(* substring test.  A JS object is a record whose DOMAIN holds exactly the *)
(* keys that are present; an ordered mapping (template.automations,        *)
(* skills.entries) is a sequence of records with a unique name field, in   *)
(* insertion order.  A path is the sequence of its segments below the      *)
(* workspace root ~/clawd, the root itself being << >>.                    *)
(***************************************************************************)
EXTENDS Naturals, Sequences, FiniteSets, TLC

VARIABLES
  rev,          \* which revision of wizard.js runs: 1 or 2
  caller,       \* "runWizard", or "direct" for a call of the exported generateSetup
  options,      \* runWizard's options: [skipChecks, testMode]
  pc,           \* position in runWizard / setupWorkspace / generateSetup
  err,          \* the error the run ended with, "none" otherwise
  checked,      \* "skipped", "passed", "failed", or "pending"
  answers,      \* inquirer's answers, NoValue before the prompt
  template,     \* the loaded template, NoValue before loadTemplate
  integrations, \* configureIntegrations' result, NoValue before
  config,       \* the Configuration, NoValue before generateConfiguration
  fs,           \* the filesystem below ~/clawd: [dirs, files]
  fs0,          \* the filesystem before the first run
  log,          \* the filesystem calls of the current run, in order
  ret,          \* what generateSetup returned in the current run
  si,           \* installRequiredSkills' loop index
  runs,         \* how many times workspace setup has been started
  today,        \* the wall-clock day new Date() reads
  shown,        \* what displaySuccess printed, NoValue before
  interrupted   \* whether an earlier run was ended by a filesystem error

vars == <<rev, caller, options, pc, err, checked, answers, template,
          integrations, config, fs, fs0, log, ret, si, runs, today, shown, interrupted>>

(***************************************************************************)
(* Bounds of the model.                                                    *)
(***************************************************************************)
MaxAutos == 2
MaxTools == 3
MaxRuns == 2
MaxDay == 1

NoValue == [absent |-> TRUE]

(***************************************************************************)
(* Helpers for JS values.                                                  *)
(***************************************************************************)
Has(obj, key) == key \in DOMAIN obj

\* String.prototype.includes / Array.prototype.includes
StrIncludes(s, t) ==
  \E i \in 1..(Len(s) + 1 - Len(t)) : SubSeq(s, i, i + Len(t) - 1) = t

ArrIncludes(arr, x) == \E i \in 1..Len(arr) : arr[i] = x

Range(seq) == {seq[i] : i \in 1..Len(seq)}

RECURSIVE SelectKeys(_, _)
SelectKeys(order, present) ==
  IF order = << >> THEN << >>
  ELSE (IF Head(order) \in present THEN <<Head(order)>> ELSE << >>)
         \o SelectKeys(Tail(order), present)

EmptyObj == << >>

Put(obj, key, val) ==
  [k \in DOMAIN obj \cup {key} |-> IF k = key THEN val ELSE obj[k]]

\* { ...base, ...over }
Spread(base, over) ==
  [k \in DOMAIN base \cup DOMAIN over |-> IF k \in DOMAIN over THEN over[k] ELSE base[k]]

(***************************************************************************)
(* wizard.js: configureIntegrations.  Four independent if-statements, each *)
(* testing selectedTools.includes(<identifier>) and setting one key.       *)
(***************************************************************************)
EmailIntegration ==
  [provider |-> "gmail", features |-> <<"automation", "smart_inbox", "scheduling">>]

CalendarIntegration ==
  [provider |-> "google", features |-> <<"scheduling", "meeting_prep", "availability">>]

GithubIntegration ==
  [features |-> <<"pr_reviews", "issue_tracking", "repo_analytics">>]

SocialIntegration ==
  [platforms |-> <<"linkedin", "twitter">>,
   features |-> <<"content_scheduling", "analytics", "engagement">>]

\* the four tests as an else-if chain: only the first match is set
configureIntegrationsElseIf(selectedTools) ==
  IF ArrIncludes(selectedTools, "gmail") THEN Put(EmptyObj, "email", EmailIntegration)
  ELSE IF ArrIncludes(selectedTools, "calendar")
    THEN Put(EmptyObj, "calendar", CalendarIntegration)
  ELSE IF ArrIncludes(selectedTools, "github")
    THEN Put(EmptyObj, "github", GithubIntegration)
  ELSE IF ArrIncludes(selectedTools, "social")
    THEN Put(EmptyObj, "social", SocialIntegration)
  ELSE EmptyObj

configureIntegrations(selectedTools) ==
  LET i1 == IF ArrIncludes(selectedTools, "gmail")
              THEN Put(EmptyObj, "email", EmailIntegration) ELSE EmptyObj
      i2 == IF ArrIncludes(selectedTools, "calendar")
              THEN Put(i1, "calendar", CalendarIntegration) ELSE i1
      i3 == IF ArrIncludes(selectedTools, "github")
              THEN Put(i2, "github", GithubIntegration) ELSE i2
      i4 == IF ArrIncludes(selectedTools, "social")
              THEN Put(i3, "social", SocialIntegration) ELSE i3
  IN i4

\* Object.keys(config.integrations): the keys in the order the code sets them
IntegrationKeys(integ) ==
  SelectKeys(<<"email", "calendar", "github", "social">>, DOMAIN integ)

(***************************************************************************)
(* template.skills has two shapes: an array of names, [array |-> <<..>>],  *)
(* or {entries: {name: spec}}, [entries |-> <<[name, spec], ..>>].         *)
(* The code tells them apart by reading template.skills.entries.  On an    *)
(* array that property is the built-in method Array.prototype.entries: a   *)
(* function object, truthy, with no enumerable own keys.                   *)
(***************************************************************************)
IsArray(skills) == Has(skills, "array")

\* template.skills.entries
skillsEntries(skills) ==
  IF IsArray(skills) THEN [builtin |-> "Array.prototype.entries", props |-> << >>]
  ELSE [props |-> skills.entries]

Truthy(v) == v # NoValue

\* Object.keys(template.skills.entries)
ObjectKeys(obj) == [i \in 1..Len(obj.props) |-> obj.props[i].name]

\* template.skills.entries[skill]
EntryOf(obj, skill) ==
  IF \E i \in 1..Len(obj.props) : obj.props[i].name = skill
    THEN (CHOOSE e \in Range(obj.props) : e.name = skill).spec
    ELSE NoValue

\* template.skills.entries ? Object.keys(template.skills.entries) : template.skills
listSkills(skills) ==
  IF Truthy(skillsEntries(skills)) THEN ObjectKeys(skillsEntries(skills))
  ELSE skills.array

(***************************************************************************)
(* setup.js: the renderers.  A document's content is a record of the       *)
(* values the template literal interpolates; the fixed text around them is *)
(* left out.                                                               *)
(***************************************************************************)
\* x || fallback, for an optional field of an object
OrElse(obj, key, fallback) == IF Has(obj, key) THEN obj[key] ELSE fallback

\* automation.includes ? automation.includes.map(item => verb + item) : fallback
IncludesLines(automation, verb, fallback) ==
  IF Has(automation, "includes")
    THEN [verb |-> verb, items |-> automation.includes]
    ELSE [fallback |-> fallback]

\* a daily test that ignores the case of the first letter
IsDailyAnyCase(automation) ==
  StrIncludes(automation.schedule, "daily") \/ StrIncludes(automation.schedule, "Daily")

\* setup.js:334
IsDaily(automation) == StrIncludes(automation.schedule, "daily")

\* a weekly test that yields to the daily one, as an else-if chain would
IsWeeklyUnlessDaily(automation) ==
  /\ ~StrIncludes(automation.schedule, "daily")
  /\ StrIncludes(automation.schedule, "Weekly") \/ StrIncludes(automation.schedule, "weekly")

\* setup.js:348
IsWeekly(automation) ==
  StrIncludes(automation.schedule, "Weekly") \/ StrIncludes(automation.schedule, "weekly")

\* setup.js:362
IsMonthly(automation) ==
  StrIncludes(automation.schedule, "Monthly") \/ StrIncludes(automation.schedule, "monthly")

HeartbeatBlock(automation, verb, fallback) ==
  [key |-> automation.name,
   when |-> automation.schedule,
   priority |-> OrElse(automation, "priority", "medium"),
   what |-> OrElse(automation, "description", "undefined"),
   actions |-> IncludesLines(automation, verb, fallback)]

DailyBlock(a) == HeartbeatBlock(a, "Check and report on", "Execute automation workflow")
WeeklyBlock(a) == HeartbeatBlock(a, "Analyze and summarize", "Execute weekly workflow")
MonthlyBlock(a) == HeartbeatBlock(a, "Deep analysis of", "Execute periodic workflow")

\* Object.entries(automations).map(f).filter(Boolean), f returning a block for
\* the entries that pass the section's test and undefined for the others
DailySection(automations) ==
  LET kept == SelectSeq(automations, IsDaily) IN
  [i \in 1..Len(kept) |-> DailyBlock(kept[i])]

WeeklySection(automations) ==
  LET kept == SelectSeq(automations, IsWeekly) IN
  [i \in 1..Len(kept) |-> WeeklyBlock(kept[i])]

MonthlySection(automations) ==
  LET kept == SelectSeq(automations, IsMonthly) IN
  [i \in 1..Len(kept) |-> MonthlyBlock(kept[i])]

HeartbeatContent(cfg) ==
  LET t == cfg.template IN
  [kind |-> "HEARTBEAT.md",
   title |-> t.name,
   role |-> cfg.user.type,
   daily |-> IF Has(t, "automations")
               THEN DailySection(t.automations) ELSE << >>,
   weekly |-> IF Has(t, "automations")
                THEN WeeklySection(t.automations) ELSE << >>,
   monthly |-> IF Has(t, "automations")
                 THEN MonthlySection(t.automations) ELSE << >>]

AgentsBlock(automation) ==
  [key |-> automation.name,
   schedule |-> automation.schedule,
   priority |-> OrElse(automation, "priority", "medium"),
   description |-> OrElse(automation, "description", "Automated workflow"),
   includes |-> IF Has(automation, "includes") THEN automation.includes ELSE << >>]

AgentsSkillLines(skills) ==
  IF Truthy(skillsEntries(skills))
    THEN LET keys == ObjectKeys(skillsEntries(skills)) IN
         [i \in 1..Len(keys) |->
            [skill |-> keys[i],
             description |-> OrElse(EntryOf(skillsEntries(skills), keys[i]),
                                    "description", "Official OpenClaw skill")]]
    ELSE [i \in 1..Len(skills.array) |->
            [skill |-> skills.array[i], description |-> "Official OpenClaw skill"]]

AgentsContent(cfg) ==
  LET t == cfg.template IN
  [kind |-> "AGENTS.md",
   title |-> t.name,
   description |-> t.description,
   role |-> cfg.user.type,
   focus |-> IF Has(t, "automations")
               THEN [i \in 1..Len(t.automations) |-> AgentsBlock(t.automations[i])]
               ELSE << >>,
   demo |-> IF Has(t, "demo_scenarios") THEN t.demo_scenarios ELSE << >>,
   impact |-> IF Has(t, "impact_metrics") THEN <<t.impact_metrics>> ELSE << >>,
   skills |-> AgentsSkillLines(t.skills)]

TemplateFileName(cfg) == cfg.user.type \o "-automation-template.json"

AutomationExample(cfg) ==
  [kind |-> "automation-template.json",
   name |-> cfg.user.type \o "_automation_example",
   description |-> "Example automation workflow for " \o cfg.user.type,
   template |-> cfg.template,
   skills_needed |-> listSkills(cfg.template.skills)]

\* the goal lines without the optional chaining: goals.map on an absent list
\* throws a TypeError
GoalLinesUnguarded(user, prefix, placeholder) ==
  IF ~Has(user, "goals") THEN [throws |-> "TypeError"]
  ELSE IF user.goals # << >> THEN [prefix |-> prefix, goals |-> user.goals]
  ELSE [placeholder |-> placeholder]

\* config.user.goals?.map(goal => ...).join('\n') || placeholder: an absent
\* list and an empty one (whose join is the empty string) give the placeholder
GoalLines(user, prefix, placeholder) ==
  IF Has(user, "goals") /\ user.goals # << >>
    THEN [prefix |-> prefix, goals |-> user.goals]
    ELSE [placeholder |-> placeholder]

KeyMetrics(type) ==
  IF type = "founder" THEN <<"Revenue tracking", "User growth", "Team updates">>
  ELSE IF type = "engineer"
    THEN <<"PR reviews pending", "GitHub notifications", "CI/CD status">>
  ELSE <<"Daily goals", "Important updates">>

MorningBriefContent(cfg, day) ==
  [kind |-> "morning-brief.md",
   date |-> day,
   priorities |-> GoalLines(cfg.user, "Work on: ", "- General productivity tasks"),
   metrics |-> KeyMetrics(cfg.user.type),
   pending |-> IntegrationKeys(cfg.integrations),
   ready |-> Len(cfg.template.automations)]

(***************************************************************************)
(* wizard.js, revision 2: configureSkillsForRole's artifact.  Revision 1:  *)
(* installRequiredSkills' two scaffold files per skill.                    *)
(***************************************************************************)
\* the loop body at wizard.js:407-422
SkillEntry(skills, skill) ==
  IF Truthy(skillsEntries(skills)) /\ Truthy(EntryOf(skillsEntries(skills), skill))
    THEN Spread([enabled |-> TRUE], EntryOf(skillsEntries(skills), skill))
    ELSE [enabled |-> TRUE]

SkillsConfig(cfg) ==
  LET names == listSkills(cfg.template.skills) IN
  [kind |-> "openclaw-skills-config.json",
   entries |-> [i \in 1..Len(names) |->
                  [name |-> names[i], spec |-> SkillEntry(cfg.template.skills, names[i])]]]

SkillMd(skill) == [kind |-> "SKILL.md", skill |-> skill]

SkillPackage(skill) ==
  [kind |-> "package.json", name |-> skill, version |-> "1.0.0",
   keywords |-> <<"openclaw", "skill", skill, "automation">>]

(***************************************************************************)
(* setup.js: functions that generateSetup never calls (nothing in src/     *)
(* calls them, and the module exports generateSetup alone): the six        *)
(* directories of createWorkspaceStructure and the documents of            *)
(* generateAutomations, generateFounderAutomations and                     *)
(* generateEngineerAutomations.                                            *)
(***************************************************************************)
createWorkspaceStructure ==
  <<"config", "automations", "workflows", "integrations", "docs", "logs">>

\* the goals list of generateDocumentation's README.md (setup.js:182)
ReadmeGoals(user) == GoalLines(user, "- ", "- General automation")

MorningBriefAutomation(cfg) ==
  LET autos == cfg.template.automations
      mb == IF \E i \in 1..Len(autos) : autos[i].name = "morning_brief"
              THEN CHOOSE a \in Range(autos) : a.name = "morning_brief"
              ELSE EmptyObj
  IN [name |-> "Morning Intelligence Brief",
      schedule |-> OrElse(mb, "schedule", "8:00 AM daily"),
      actions |-> <<[type |-> "collect_data", sources |-> OrElse(mb, "includes", << >>)],
                    [type |-> "generate_summary"],
                    [type |-> "notify"]>>]

InvestorUpdate ==
  [name |-> "Weekly Investor Update Prep",
   schedule |-> "Weekly Friday 4:00 PM",
   actions |-> <<[type |-> "collect_metrics",
                  sources |-> <<"revenue", "user_growth", "team_updates">>],
                 [type |-> "generate_report"]>>]

CodeReview ==
  [name |-> "Automated Code Review Assistant",
   schedule |-> "On PR creation",
   actions |-> <<[type |-> "analyze_code",
                  checks |-> <<"security", "performance", "style", "tests">>],
                 [type |-> "generate_feedback"]>>]

(***************************************************************************)
(* The filesystem (fs-extra).  ensureDir is mkdir -p; writeFile replaces   *)
(* the file's content and needs the file's directory to exist.             *)
(***************************************************************************)
RootPath == << >>

Parent(path) == SubSeq(path, 1, Len(path) - 1)

Prefixes(path) == {SubSeq(path, 1, k) : k \in 0..Len(path)}

Mkdir(path) == [op |-> "mkdir", path |-> path]

Write(path, content) == [op |-> "write", path |-> path, content |-> content]

ensureDir(f, path) == [f EXCEPT !.dirs = @ \cup Prefixes(path)]

\* a write that appends to a file that exists
writeFileAppend(f, path, content) ==
  [f EXCEPT !.files =
     Put(@, path, IF path \in DOMAIN @
                    THEN [kind |-> "appended", old |-> @[path], new |-> content]
                    ELSE content)]

writeFile(f, path, content) == [f EXCEPT !.files = Put(@, path, content)]

CanApply(f, o) ==
  IF o.op = "mkdir"
    THEN \A q \in Prefixes(o.path) : q \notin DOMAIN f.files
    ELSE Parent(o.path) \in f.dirs /\ o.path \notin f.dirs

Apply(f, o) ==
  IF o.op = "mkdir" THEN ensureDir(f, o.path) ELSE writeFile(f, o.path, o.content)

\* a call as the log keeps it: whether it succeeded, and whether the directory
\* a write goes into existed when the call was made
Logged(f, o, ok) ==
  [op |-> o.op, path |-> o.path, ok |-> ok,
   hasDir |-> (o.op = "write") => (Parent(o.path) \in f.dirs)]

\* a call whose failure is followed by a cleanup that restores the workspace
\* the wizard found
FsCallRollback(o, next) ==
  \/ /\ CanApply(fs, o)
     /\ fs' = Apply(fs, o)
     /\ log' = Append(log, Logged(fs, o, TRUE))
     /\ pc' = next
     /\ err' = err
  \/ /\ fs' = fs0
     /\ log' = Append(log, Logged(fs, o, FALSE))
     /\ pc' = "error"
     /\ err' = "FileSystemError"

\* One filesystem call of a step: it succeeds and the step goes on, or it
\* rejects (ENOENT, EACCES, ENOSPC, ...) and the error propagates up through
\* setupWorkspace's catch, which rethrows it.
FsCall(o, next) ==
  \/ /\ CanApply(fs, o)
     /\ fs' = Apply(fs, o)
     /\ log' = Append(log, Logged(fs, o, TRUE))
     /\ pc' = next
     /\ err' = err
  \/ /\ fs' = fs
     /\ log' = Append(log, Logged(fs, o, FALSE))
     /\ pc' = "error"
     /\ err' = "FileSystemError"

(***************************************************************************)
(* Inputs.  questions.js and templates.js are not part of src/: the        *)
(* answers and the catalog's templates are drawn from the sets below.      *)
(***************************************************************************)
UserTypes == {"founder", "engineer", "creator", "astronaut"}

CatalogRoles == {"founder", "engineer", "creator"}

ToolIds == {"gmail", "calendar", "github", "social", "slack"}

RECURSIVE SeqsUpTo(_, _)
SeqsUpTo(S, n) ==
  IF n = 0 THEN {<< >>}
  ELSE LET shorter == SeqsUpTo(S, n - 1) IN
       shorter \cup {Append(q, x) : q \in shorter, x \in S}

ToolSeqs == SeqsUpTo(ToolIds, MaxTools)

ToolChoices == {<< >>, <<"github", "gmail">>, <<"slack", "calendar", "slack">>}

GoalChoices == {<< >>, <<"fundraising", "hiring">>}

Answers(types, tools) ==
  {[userType |-> u, tools |-> t, experience |-> "beginner"] : u \in types, t \in tools}
    \cup {[userType |-> u, tools |-> t, experience |-> "beginner", goals |-> g] :
            u \in types, t \in tools, g \in GoalChoices}

SkillShapes ==
  {[array |-> <<"email", "calendar">>],
   [entries |-> <<[name |-> "email", spec |-> [description |-> "Inbox triage"]],
                  [name |-> "calendar", spec |-> [enabled |-> FALSE]]>>]}

Schedules ==
  {"8:00 AM daily", "Weekly Friday 4:00 PM", "Monthly Report", "On PR creation",
   "Daily 9:00", "daily and weekly sync", "Weekly and monthly review"}

AutoNames == <<"morning_brief", "status_report", "deep_dive", "extra_task">>

AutoShapes(name) ==
  {[name |-> name, schedule |-> sch, description |-> "Briefing"] : sch \in Schedules}
    \cup {[name |-> name, schedule |-> sch, description |-> "Briefing",
           priority |-> "high", includes |-> <<"metrics", "calendar">>] :
            sch \in Schedules}

\* automation lists of n entries, the i-th named AutoNames[i]
RECURSIVE AutoLists(_)
AutoLists(n) ==
  IF n = 0 THEN {<< >>}
  ELSE {Append(q, a) : q \in AutoLists(n - 1), a \in AutoShapes(AutoNames[n])}

AllAutoLists == UNION {AutoLists(n) : n \in 0..MaxAutos}

CatalogAutomations ==
  {<<[name |-> "morning_brief", schedule |-> "8:00 AM daily",
      description |-> "Daily briefing", priority |-> "high",
      includes |-> <<"calendar", "email">>],
     [name |-> "investor_update", schedule |-> "Weekly Friday 4:00 PM",
      description |-> "Investor update"]>>,
   <<[name |-> "code_review", schedule |-> "On PR creation",
      description |-> "Review pull requests"],
     [name |-> "monthly_report", schedule |-> "Monthly Report",
      description |-> "Monthly numbers", includes |-> <<"revenue">>]>>}

TemplatesOf(role, automationLists) ==
  {[name |-> role \o " template", description |-> "Template for " \o role,
    automations |-> a, skills |-> sk] : a \in automationLists, sk \in SkillShapes}

Stale == [kind |-> "stale"]

InitialFilesystems ==
  {[dirs |-> {}, files |-> EmptyObj],
   [dirs |-> {RootPath}, files |-> EmptyObj],
   [dirs |-> {RootPath, <<"templates">>},
    files |-> (<<"AGENTS.md">> :> Stale) @@ (<<"notes.txt">> :> Stale)],
   [dirs |-> {RootPath}, files |-> (<<"templates">> :> Stale)]}

(***************************************************************************)
(* wizard.js: generateConfiguration.  created is new Date() at assembly.   *)
(***************************************************************************)
generateConfiguration(ans, tmpl, integ, day) ==
  [user |-> IF Has(ans, "goals")
              THEN [type |-> ans.userType, goals |-> ans.goals,
                    experience |-> ans.experience]
              ELSE [type |-> ans.userType, experience |-> ans.experience],
   template |-> tmpl,
   integrations |-> integ,
   workspace |-> [name |-> ans.userType \o "-ai-employee",
                  description |-> "AI employee setup for " \o ans.userType,
                  automations |-> tmpl.automations,
                  skills |-> tmpl.skills],
   created |-> day]

(***************************************************************************)
(* Initial states: runWizard(options) is about to run.                     *)
(***************************************************************************)
Init ==
  /\ rev \in {1, 2}
  /\ caller = "runWizard"
  /\ options \in [skipChecks : BOOLEAN, testMode : BOOLEAN]
  /\ pc = "start"
  /\ err = "none"
  /\ checked = "pending"
  /\ answers = NoValue
  /\ template = NoValue
  /\ integrations = NoValue
  /\ config = NoValue
  /\ fs \in InitialFilesystems
  /\ fs0 = fs
  /\ log = << >>
  /\ ret = NoValue
  /\ si = 1
  /\ runs = 0
  /\ today = 0
  /\ shown = NoValue
  /\ interrupted = FALSE

(***************************************************************************)
(* wizard.js: runWizard, steps 1 to 5 and the test-mode branch.            *)
(***************************************************************************)
inputVars == <<rev, caller, options, fs0, interrupted>>
assemblyVars == <<answers, template, integrations, config>>
fsVars == <<fs, log>>
runVars == <<ret, si, runs, today, shown>>

\* system checks whose failure is reported but not rethrown
RunSystemChecksSwallow ==
  /\ pc = "start"
  /\ IF options.skipChecks
       THEN checked' = "skipped"
       ELSE \E nodeOk, whichOk, npxOk \in BOOLEAN :
              checked' = IF nodeOk /\ (whichOk \/ npxOk) THEN "passed" ELSE "failed"
  /\ pc' = "prompt"
  /\ UNCHANGED <<rev, caller, options, fs0, interrupted, err, answers, template,
                 integrations, config, fs, log, ret, si, runs, today, shown>>

\* runWizard step 1 and runSystemChecks: the Node version test, then
\* `which openclaw`, then `npx openclaw --version`; any failure is rethrown
RunSystemChecks ==
  /\ pc = "start"
  /\ IF options.skipChecks
       THEN /\ checked' = "skipped"
            /\ pc' = "prompt"
            /\ err' = err
       ELSE \E nodeOk, whichOk, npxOk \in BOOLEAN :
              IF nodeOk /\ (whichOk \/ npxOk)
                THEN /\ checked' = "passed"
                     /\ pc' = "prompt"
                     /\ err' = err
                ELSE /\ checked' = "failed"
                     /\ pc' = "error"
                     /\ err' = "SystemCheckFailed"
  /\ UNCHANGED <<inputVars, assemblyVars, fsVars, runVars>>

\* runWizard step 2: inquirer.prompt
GetUserPreferences ==
  /\ pc = "prompt"
  /\ \E a \in Answers(UserTypes, ToolChoices) : answers' = a
  /\ pc' = "load"
  /\ UNCHANGED <<inputVars, err, checked, template, integrations, config, fsVars, runVars>>

\* runWizard step 3: loadTemplate(answers.userType), a lookup in the catalog
\* that throws when the role has no entry
LoadTemplate ==
  /\ pc = "load"
  /\ IF answers.userType \in CatalogRoles
       THEN /\ \E t \in TemplatesOf(answers.userType, CatalogAutomations) : template' = t
            /\ pc' = "integrations"
            /\ err' = err
       ELSE /\ template' = template
            /\ pc' = "error"
            /\ err' = "TemplateNotFound"
  /\ UNCHANGED <<inputVars, checked, answers, integrations, config, fsVars, runVars>>

\* runWizard step 4
ConfigureIntegrations ==
  /\ pc = "integrations"
  /\ integrations' = configureIntegrations(answers.tools)
  /\ pc' = "configure"
  /\ UNCHANGED <<inputVars, err, checked, answers, template, config, fsVars, runVars>>

\* runWizard step 5
GenerateConfiguration ==
  /\ pc = "configure"
  /\ config' = generateConfiguration(answers, template, integrations, today)
  /\ pc' = "branch"
  /\ UNCHANGED <<inputVars, err, checked, answers, template, integrations, fsVars, runVars>>

\* a step 6 that sets the workspace up whatever options.testMode says
RunWizardBranchAlwaysSetup ==
  /\ pc = "branch"
  /\ pc' = "sw_root"
  /\ runs' = 1
  /\ UNCHANGED <<inputVars, err, checked, assemblyVars, fsVars, ret, si, today, shown>>

\* runWizard step 6: if (!testMode) setupWorkspace ... else print and return
RunWizardBranch ==
  /\ pc = "branch"
  /\ IF options.testMode
       THEN pc' = "done" /\ runs' = runs
       ELSE pc' = "sw_root" /\ runs' = 1
  /\ UNCHANGED <<inputVars, err, checked, assemblyVars, fsVars, ret, si, today, shown>>

(***************************************************************************)
(* wizard.js: setupWorkspace; setup.js: generateSetup, one action per      *)
(* filesystem call.                                                        *)
(***************************************************************************)
stepFrame == <<inputVars, checked, assemblyVars, runVars>>

\* setupWorkspace: fs.ensureDir(workspacePath)
SetupWorkspaceEnsureDir ==
  /\ pc = "sw_root"
  /\ FsCall(Mkdir(RootPath), "gs_root")
  /\ UNCHANGED stepFrame

generateOpenClawWorkspace ==
  /\ pc = "gs_root"
  /\ FsCall(Mkdir(RootPath), "gs_agents")
  /\ UNCHANGED stepFrame

generateAgentsFile ==
  /\ pc = "gs_agents"
  /\ FsCall(Write(<<"AGENTS.md">>, AgentsContent(config)), "gs_heartbeat")
  /\ UNCHANGED stepFrame

generateHeartbeatFile ==
  /\ pc = "gs_heartbeat"
  /\ FsCall(Write(<<"HEARTBEAT.md">>, HeartbeatContent(config)), "gs_tdir")
  /\ UNCHANGED stepFrame

\* generateAutomationTemplates without its fs.ensureDir(templatesDir)
generateAutomationTemplatesNoDir ==
  /\ pc = "gs_tdir"
  /\ pc' = "gs_tfile"
  /\ UNCHANGED <<rev, caller, options, fs0, interrupted, err, checked, answers, template,
                 integrations, config, fs, log, ret, si, runs, today, shown>>

\* generateAutomationTemplates: fs.ensureDir(templatesDir)
generateAutomationTemplatesDir ==
  /\ pc = "gs_tdir"
  /\ FsCall(Mkdir(<<"templates">>), "gs_tfile")
  /\ UNCHANGED stepFrame

\* generateAutomationTemplates: fs.writeFile(<type>-automation-template.json)
generateAutomationTemplatesFile ==
  /\ pc = "gs_tfile"
  /\ FsCall(Write(<<"templates", TemplateFileName(config)>>, AutomationExample(config)),
            "gs_brief")
  /\ UNCHANGED stepFrame

generateMorningBrief ==
  /\ pc = "gs_brief"
  /\ FsCall(Write(<<"morning-brief.md">>, MorningBriefContent(config, today)), "gs_return")
  /\ UNCHANGED stepFrame

\* generateSetup: return workspacePath.  Back in setupWorkspace the skills
\* step of the revision follows; a direct caller is done.
generateSetupReturn ==
  /\ pc = "gs_return"
  /\ ret' = RootPath
  /\ pc' = IF caller = "direct" THEN "done"
           ELSE IF rev = 1 THEN "is_dir" ELSE "csr_write"
  /\ UNCHANGED <<inputVars, err, checked, assemblyVars, fsVars, si, runs, today, shown>>

(***************************************************************************)
(* wizard.js revision 1: installRequiredSkills(config.workspace.skills).   *)
(***************************************************************************)
skillFrame == <<inputVars, checked, assemblyVars, ret, runs, today, shown>>

\* fs.ensureDir(skillsDir)
installRequiredSkillsDir ==
  /\ pc = "is_dir"
  /\ FsCall(Mkdir(<<"skills">>), "is_loop")
  /\ si' = 1
  /\ UNCHANGED skillFrame

\* for (const skill of skills): a plain object is not iterable, so the
\* {entries} shape throws a TypeError here; after the last skill the
\* function returns and setupWorkspace returns to runWizard
installRequiredSkillsLoop ==
  /\ pc = "is_loop"
  /\ IF ~IsArray(config.workspace.skills)
       THEN pc' = "error" /\ err' = "TypeError"
       ELSE /\ pc' = IF si <= Len(config.workspace.skills.array)
                       THEN "is_mkdir" ELSE "success"
            /\ err' = err
  /\ UNCHANGED <<inputVars, checked, assemblyVars, fsVars, runVars>>

CurrentSkill == config.workspace.skills.array[si]

\* fs.ensureDir(skillDir)
installSkillDir ==
  /\ pc = "is_mkdir"
  /\ FsCall(Mkdir(<<"skills", CurrentSkill>>), "is_md")
  /\ si' = si
  /\ UNCHANGED skillFrame

\* fs.writeFile(SKILL.md)
installSkillMd ==
  /\ pc = "is_md"
  /\ FsCall(Write(<<"skills", CurrentSkill, "SKILL.md">>, SkillMd(CurrentSkill)), "is_pkg")
  /\ si' = si
  /\ UNCHANGED skillFrame

\* fs.writeFile(package.json), then the next skill
installSkillPackage ==
  /\ pc = "is_pkg"
  /\ FsCall(Write(<<"skills", CurrentSkill, "package.json">>, SkillPackage(CurrentSkill)),
            "is_loop")
  /\ si' = si + 1
  /\ UNCHANGED skillFrame

(***************************************************************************)
(* wizard.js revision 2: configureSkillsForRole(config, workspacePath).    *)
(***************************************************************************)
configureSkillsForRole ==
  /\ pc = "csr_write"
  /\ FsCall(Write(<<"openclaw-skills-config.json">>, SkillsConfig(config)), "success")
  /\ UNCHANGED stepFrame

(***************************************************************************)
(* wizard.js: displaySuccess(config), then runWizard returns config.       *)
(* Revision 1 joins config.workspace.skills, which only an array has.      *)
(* Revision 2 reads workspacePath, which is not in scope in displaySuccess *)
(* (it is a local of setupWorkspace): a ReferenceError, after the first    *)
(* two lines were printed.                                                 *)
(***************************************************************************)
displaySuccess ==
  /\ pc = "success"
  /\ IF rev = 1
       THEN IF IsArray(config.workspace.skills)
              THEN /\ shown' = [workspace |-> config.workspace.name,
                                type |-> config.user.type,
                                skills |-> config.workspace.skills.array,
                                integrations |-> IntegrationKeys(config.integrations)]
                   /\ pc' = "done"
                   /\ err' = err
              ELSE /\ shown' = [workspace |-> config.workspace.name,
                                type |-> config.user.type]
                   /\ pc' = "error"
                   /\ err' = "TypeError"
       ELSE /\ shown' = [type |-> config.user.type,
                         skills |-> listSkills(config.template.skills)]
            /\ pc' = "error"
            /\ err' = "ReferenceError"
  /\ UNCHANGED <<inputVars, checked, assemblyVars, fsVars, ret, si, runs, today>>

(***************************************************************************)
(* Generation is started again with the same Configuration on the same     *)
(* workspace, after a run that ended (normally or with an error).  The     *)
(* clock may have moved on.                                                *)
(***************************************************************************)
Ended == pc \in {"done", "error"}

Rerun ==
  /\ Ended
  /\ runs >= 1
  /\ runs < MaxRuns
  /\ runs' = runs + 1
  /\ pc' = IF caller = "direct" THEN "gs_root" ELSE "sw_root"
  /\ err' = "none"
  /\ log' = << >>
  /\ ret' = NoValue
  /\ si' = 1
  /\ shown' = NoValue
  /\ \E d \in today..MaxDay : today' = d
  /\ interrupted' = (interrupted \/ err = "FileSystemError")
  /\ UNCHANGED <<rev, caller, options, fs0, checked, assemblyVars, fs>>

Next ==
  \/ RunSystemChecks
  \/ GetUserPreferences
  \/ LoadTemplate
  \/ ConfigureIntegrations
  \/ GenerateConfiguration
  \/ RunWizardBranch
  \/ SetupWorkspaceEnsureDir
  \/ generateOpenClawWorkspace
  \/ generateAgentsFile
  \/ generateHeartbeatFile
  \/ generateAutomationTemplatesDir
  \/ generateAutomationTemplatesFile
  \/ generateMorningBrief
  \/ generateSetupReturn
  \/ installRequiredSkillsDir
  \/ installRequiredSkillsLoop
  \/ installSkillDir
  \/ installSkillMd
  \/ installSkillPackage
  \/ configureSkillsForRole
  \/ displaySuccess
  \/ Rerun

Spec == Init /\ [][Next]_vars

\* Templates with and without the optional demo_scenarios and impact_metrics
\* (and, inside impact_metrics, with and without primary_benefits) that
\* generateAgentsFile tests before rendering them.
DemoScenarios ==
  <<[name |-> "Inbox zero", description |-> "Triage the inbox", time_saved |-> "1h"]>>

ImpactMetrics ==
  {[daily_time_saved |-> "1h", weekly_time_saved |-> "5h", monthly_time_saved |-> "20h"],
   [daily_time_saved |-> "1h", weekly_time_saved |-> "5h", monthly_time_saved |-> "20h",
    primary_benefits |-> <<"Focus">>]}

OptionalFieldTemplates(role) ==
  LET base == TemplatesOf(role, CatalogAutomations) IN
  base
    \cup {Put(t, "demo_scenarios", DemoScenarios) : t \in base}
    \cup {Put(t, "impact_metrics", m) : t \in base, m \in ImpactMetrics}
    \cup {Put(Put(t, "demo_scenarios", DemoScenarios), "impact_metrics", m) :
            t \in base, m \in ImpactMetrics}

(***************************************************************************)
(* generateSetup(config, workspacePath) called directly (setup.js exports  *)
(* it), on Configurations whose automations range over every list of up to *)
(* MaxAutos automations with the schedules of Schedules.                   *)
(***************************************************************************)
DirectConfigs ==
  {generateConfiguration(a, t, configureIntegrations(a.tools), 0) :
     a \in {[userType |-> u, tools |-> <<"gmail">>, experience |-> "beginner"] :
              u \in {"founder", "creator"}},
     t \in TemplatesOf("founder", AllAutoLists)}
    \cup {generateConfiguration(a, t, configureIntegrations(a.tools), 0) :
            a \in Answers({"founder"}, {<<"gmail">>}),
            t \in OptionalFieldTemplates("founder")}

InitSetup ==
  /\ rev = 2
  /\ caller = "direct"
  /\ options = [skipChecks |-> TRUE, testMode |-> FALSE]
  /\ pc = "gs_root"
  /\ err = "none"
  /\ checked = "skipped"
  /\ answers = NoValue
  /\ template = NoValue
  /\ integrations = NoValue
  /\ config \in DirectConfigs
  /\ fs \in {[dirs |-> {}, files |-> EmptyObj], [dirs |-> {RootPath}, files |-> EmptyObj]}
  /\ fs0 = fs
  /\ log = << >>
  /\ ret = NoValue
  /\ si = 1
  /\ runs = 1
  /\ today = 0
  /\ shown = NoValue
  /\ interrupted = FALSE

NextSetup ==
  \/ generateOpenClawWorkspace
  \/ generateAgentsFile
  \/ generateHeartbeatFile
  \/ generateAutomationTemplatesDir
  \/ generateAutomationTemplatesFile
  \/ generateMorningBrief
  \/ generateSetupReturn

SpecSetup == InitSetup /\ [][NextSetup]_vars

(***************************************************************************)
(* runWizard from step 4 on, in test mode, the answers' tools ranging over *)
(* every list of up to MaxTools identifiers.                               *)
(***************************************************************************)
InitIntegrations ==
  /\ rev = 2
  /\ caller = "runWizard"
  /\ options = [skipChecks |-> TRUE, testMode |-> TRUE]
  /\ pc = "integrations"
  /\ err = "none"
  /\ checked = "skipped"
  /\ answers \in Answers({"founder"}, ToolSeqs)
  /\ template \in TemplatesOf("founder", {<< >>})
  /\ integrations = NoValue
  /\ config = NoValue
  /\ fs = [dirs |-> {}, files |-> EmptyObj]
  /\ fs0 = fs
  /\ log = << >>
  /\ ret = NoValue
  /\ si = 1
  /\ runs = 0
  /\ today = 0
  /\ shown = NoValue
  /\ interrupted = FALSE

NextIntegrations ==
  \/ ConfigureIntegrations
  \/ GenerateConfiguration
  \/ RunWizardBranch

SpecIntegrations == InitIntegrations /\ [][NextIntegrations]_vars

(***************************************************************************)
(* Properties.                                                             *)
(***************************************************************************)
FileExists(path) == path \in DOMAIN fs.files

SetupReturned == ret = RootPath

\* the path was written, successfully, by the current run
WrittenThisRun(path) ==
  \E i \in 1..Len(log) : log[i].op = "write" /\ log[i].path = path /\ log[i].ok

InvestorUpdatePath == <<"automations", "investor-update.yaml">>
CodeReviewPath == <<"automations", "code-review.yaml">>

\* C1: role branching of the generation pipeline.  Once generateSetup has
\* returned, a founder's workspace holds automations/investor-update.yaml
\* (collect_metrics over revenue/user_growth/team_updates, then
\* generate_report) and no code-review.yaml, an engineer's holds
\* automations/code-review.yaml (analyze_code with the four checks, then
\* generate_feedback) and no investor-update.yaml, and any other role's holds
\* neither.
C1_RoleBranching ==
  SetupReturned =>
    /\ (config.user.type = "founder") =>
         /\ FileExists(InvestorUpdatePath)
         /\ fs.files[InvestorUpdatePath] = InvestorUpdate
         /\ ~FileExists(CodeReviewPath)
    /\ (config.user.type = "engineer") =>
         /\ FileExists(CodeReviewPath)
         /\ fs.files[CodeReviewPath] = CodeReview
         /\ ~FileExists(InvestorUpdatePath)
    /\ (config.user.type \notin {"founder", "engineer"}) =>
         /\ ~FileExists(InvestorUpdatePath)
         /\ ~FileExists(CodeReviewPath)

DocumentSet(cfg) ==
  {<<"README.md">>, <<"AGENTS.md">>, <<"HEARTBEAT.md">>, <<"morning-brief.md">>,
   <<"config", "clawdbot.yaml">>, <<"automations", "morning-brief.yaml">>,
   <<"templates", TemplateFileName(cfg)>>}

\* C2: for every user type, once generateSetup has returned without error the
\* workspace holds the full document set: README.md, AGENTS.md, HEARTBEAT.md,
\* morning-brief.md, config/clawdbot.yaml, automations/morning-brief.yaml
\* (with the template's morning_brief schedule, or '8:00 AM daily') and
\* templates/<user_type>-automation-template.json.
C2_FullDocumentSet ==
  SetupReturned =>
    /\ \A path \in DocumentSet(config) : FileExists(path)
    /\ fs.files[<<"automations", "morning-brief.yaml">>] = MorningBriefAutomation(config)

RequiredDirectories ==
  {<<"config">>, <<"automations">>, <<"workflows">>, <<"integrations">>,
   <<"docs">>, <<"logs">>, <<"templates">>, <<"skills">>}

\* C8: after a successful workspace generation the eight required
\* subdirectories (config, automations, workflows, integrations, docs, logs,
\* templates, skills) exist under the workspace root, and generation returned
\* the workspace root.
C8_RequiredDirectories ==
  (Ended /\ runs >= 1 /\ err = "none") =>
    /\ ret = RootPath
    /\ RequiredDirectories \subseteq fs.dirs

HeartbeatPath == <<"HEARTBEAT.md">>

Sections == {"daily", "weekly", "monthly"}

\* the sections of the HEARTBEAT.md on disk that render the automation
SectionsOf(name) ==
  {sec \in Sections :
     \E i \in 1..Len(fs.files[HeartbeatPath][sec]) : fs.files[HeartbeatPath][sec][i].key = name}

Automations == Range(config.template.automations)

\* what a first-match-wins classifier returns for the schedules of Schedules
FirstMatch(schedule) ==
  CASE schedule = "8:00 AM daily" -> {"daily"}
    [] schedule = "Weekly Friday 4:00 PM" -> {"weekly"}
    [] schedule = "Monthly Report" -> {"monthly"}
    [] schedule = "On PR creation" -> {}
    [] schedule = "Daily 9:00" -> {}
    [] schedule = "daily and weekly sync" -> {"daily"}
    [] schedule = "Weekly and monthly review" -> {"weekly"}

\* the sections whose token each schedule of Schedules contains
TokenSections(schedule) ==
  CASE schedule = "8:00 AM daily" -> {"daily"}
    [] schedule = "Weekly Friday 4:00 PM" -> {"weekly"}
    [] schedule = "Monthly Report" -> {"monthly"}
    [] schedule = "On PR creation" -> {}
    [] schedule = "Daily 9:00" -> {}
    [] schedule = "daily and weekly sync" -> {"daily", "weekly"}
    [] schedule = "Weekly and monthly review" -> {"weekly", "monthly"}

\* C3 as stated: classification is first-match-wins in the order daily,
\* weekly, monthly, so every automation is rendered in at most one section of
\* HEARTBEAT.md, the one of its highest-priority token.
C3_FirstMatchWins ==
  WrittenThisRun(HeartbeatPath) =>
    \A a \in Automations :
      /\ Cardinality(SectionsOf(a.name)) <= 1
      /\ SectionsOf(a.name) = FirstMatch(a.schedule)

\* C3 amended: the three sections of HEARTBEAT.md test their tokens
\* independently.  An automation is rendered in exactly the sections whose
\* token its schedule contains ("daily"; "Weekly"/"weekly";
\* "Monthly"/"monthly"), so a schedule with tokens of several sections is
\* rendered in each of them; within one section it is rendered at most once.
C3_IndependentSections ==
  WrittenThisRun(HeartbeatPath) =>
    /\ \A a \in Automations : SectionsOf(a.name) = TokenSections(a.schedule)
    /\ \A sec \in Sections :
         \A i, j \in 1..Len(fs.files[HeartbeatPath][sec]) :
           fs.files[HeartbeatPath][sec][i].key = fs.files[HeartbeatPath][sec][j].key => i = j

\* a schedule with two tokens, rendered under Daily and under Weekly
C3_Witness ==
  /\ WrittenThisRun(HeartbeatPath)
  /\ \E a \in Automations :
       /\ a.schedule = "daily and weekly sync"
       /\ SectionsOf(a.name) = {"daily", "weekly"}

NoToken(schedule) ==
  /\ ~StrIncludes(schedule, "daily")
  /\ ~StrIncludes(schedule, "Weekly") /\ ~StrIncludes(schedule, "weekly")
  /\ ~StrIncludes(schedule, "Monthly") /\ ~StrIncludes(schedule, "monthly")

\* C4: an automation whose schedule contains none of the tokens "daily"
\* (lowercase only), "Weekly"/"weekly", "Monthly"/"monthly" is rendered in
\* none of the three sections of HEARTBEAT.md; "On PR creation" and
\* "Daily 9:00" are such schedules; and generation does not fail on one (a
\* run ends with no error other than a filesystem error).
C4_OtherExcluded ==
  /\ NoToken("On PR creation")
  /\ NoToken("Daily 9:00")
  /\ WrittenThisRun(HeartbeatPath) =>
       \A a \in Automations : NoToken(a.schedule) => SectionsOf(a.name) = {}
  /\ (config # NoValue /\ \E a \in Automations : NoToken(a.schedule)) =>
       err \in {"none", "FileSystemError"}

\* generateSetup returned for a template with two token-less schedules, both
\* left out of every section
C4_Witness ==
  /\ pc = "done"
  /\ err = "none"
  /\ WrittenThisRun(HeartbeatPath)
  /\ \E a, b \in Automations :
       /\ a.schedule = "Daily 9:00" /\ SectionsOf(a.name) = {}
       /\ b.schedule = "On PR creation" /\ SectionsOf(b.name) = {}

\* the skill names of a template, in either shape
SkillNames(skills) ==
  IF IsArray(skills) THEN Range(skills.array) ELSE {e.name : e \in Range(skills.entries)}

AgentsPath == <<"AGENTS.md">>
SkillsConfigPath == <<"openclaw-skills-config.json">>
TemplatePath == <<"templates", TemplateFileName(config)>>

\* C5: skills are handled uniformly in both shapes.  For the array shape and
\* for the {entries} shape with the same names, every step that lists or
\* iterates skills completes without error (no run ends in a TypeError or a
\* ReferenceError) and yields the template's skill names: the skills section
\* of AGENTS.md, skills_needed of the example template, the skills-config
\* artifact, the per-skill scaffold files and the success summary.
C5_SkillsUniform ==
  (config # NoValue) =>
    LET names == SkillNames(config.template.skills) IN
    /\ err \notin {"TypeError", "ReferenceError"}
    /\ WrittenThisRun(AgentsPath) =>
         {line.skill : line \in Range(fs.files[AgentsPath].skills)} = names
    /\ WrittenThisRun(TemplatePath) =>
         Range(fs.files[TemplatePath].skills_needed) = names
    /\ WrittenThisRun(SkillsConfigPath) =>
         {e.name : e \in Range(fs.files[SkillsConfigPath].entries)} = names
    /\ (rev = 1 /\ pc = "success") =>
         \A n \in names : WrittenThisRun(<<"skills", n, "SKILL.md">>)
    /\ (shown # NoValue /\ Has(shown, "skills")) => Range(shown.skills) = names

(***************************************************************************)
(* The filesystem calls of one run of workspace setup in which no call is  *)
(* made to fail, and the filesystem such a run leaves.                     *)
(***************************************************************************)
RECURSIVE ScaffoldOps(_)
ScaffoldOps(names) ==
  IF names = << >> THEN << >>
  ELSE <<Mkdir(<<"skills", Head(names)>>),
         Write(<<"skills", Head(names), "SKILL.md">>, SkillMd(Head(names))),
         Write(<<"skills", Head(names), "package.json">>, SkillPackage(Head(names)))>>
         \o ScaffoldOps(Tail(names))

SetupOps(cfg, day) ==
  (IF caller = "direct" THEN << >> ELSE <<Mkdir(RootPath)>>)
    \o <<Mkdir(RootPath),
         Write(AgentsPath, AgentsContent(cfg)),
         Write(HeartbeatPath, HeartbeatContent(cfg)),
         Mkdir(<<"templates">>),
         Write(<<"templates", TemplateFileName(cfg)>>, AutomationExample(cfg)),
         Write(<<"morning-brief.md">>, MorningBriefContent(cfg, day))>>
    \o (IF caller = "direct" THEN << >>
        ELSE IF rev = 2 THEN <<Write(SkillsConfigPath, SkillsConfig(cfg))>>
        ELSE <<Mkdir(<<"skills">>)>>
               \o (IF IsArray(cfg.workspace.skills)
                     THEN ScaffoldOps(cfg.workspace.skills.array) ELSE << >>))

\* the calls applied in order, up to the first that cannot succeed
RECURSIVE ApplyAll(_, _)
ApplyAll(f, ops) ==
  IF ops = << >> \/ ~CanApply(f, Head(ops)) THEN f
  ELSE ApplyAll(Apply(f, Head(ops)), Tail(ops))

SingleRun(f, cfg, day) == ApplyAll(f, SetupOps(cfg, day))

NoFailedCall == \A i \in 1..Len(log) : log[i].ok

\* C6: the generation pipeline is idempotent.  With the same Configuration
\* and a frozen clock, when generation has been run again on the same
\* workspace (after a run that completed or one that a filesystem error
\* interrupted after some writes) and the later run made every call without
\* failure, the workspace holds exactly the files and contents that a single
\* complete run leaves on the initial filesystem.
C6_Idempotent ==
  (Ended /\ runs >= 2 /\ NoFailedCall /\ today = 0) =>
    fs = SingleRun(fs0, config, 0)

\* a second run completed on a workspace that had files before the first run,
\* after a run that a filesystem error interrupted
C6_Witness ==
  /\ pc = "done"
  /\ runs = 2
  /\ interrupted
  /\ NoFailedCall
  /\ today = 0
  /\ fs0.files # EmptyObj
  /\ FileExists(<<"skills", "calendar", "package.json">>)

\* C7: if the system checks or the template lookup fail, runWizard aborts
\* with that error before any Configuration is built and before any
\* directory is created or file written; the first filesystem call of every
\* execution comes after loadTemplate and generateConfiguration succeeded.
C7_NoWriteBeforeConfiguration ==
  /\ (log # << >> \/ fs # fs0) =>
       /\ checked \in {"skipped", "passed"}
       /\ template # NoValue
       /\ config # NoValue
       /\ config.template = template
  /\ (checked = "failed" \/ err \in {"SystemCheckFailed", "TemplateNotFound"}) =>
       /\ pc = "error"
       /\ err \in {"SystemCheckFailed", "TemplateNotFound"}
       /\ config = NoValue
       /\ fs = fs0
       /\ log = << >>

\* the checks passed, the role has no template: the run ended with nothing built
\* and nothing written
C7_Witness ==
  /\ pc = "error"
  /\ err = "TemplateNotFound"
  /\ checked = "passed"
  /\ config = NoValue
  /\ fs = fs0

\* C9: directories exist before files are written into them.  In every run
\* of workspace setup, from any initial filesystem, each file write comes
\* after a successful creation, in the same run, of the directory it writes
\* into (or of a directory below it), and no write is made into a directory
\* that does not exist.
C9_DirectoriesBeforeFiles ==
  \A i \in 1..Len(log) :
    (log[i].op = "write") =>
      /\ log[i].hasDir
      /\ \E j \in 1..(i - 1) :
           /\ log[j].op = "mkdir"
           /\ log[j].ok
           /\ Parent(log[i].path) \in Prefixes(log[j].path)

\* a run on a home directory without ~/clawd that wrote into the root, into
\* templates/ and into skills/email/
C9_Witness ==
  /\ fs0.dirs = {}
  /\ pc = "success"
  /\ WrittenThisRun(TemplatePath)
  /\ WrittenThisRun(<<"skills", "email", "SKILL.md">>)
  /\ WrittenThisRun(<<"morning-brief.md">>)

RecognizedTools == {"gmail", "calendar", "github", "social"}

IntegrationKey(id) == IF id = "gmail" THEN "email" ELSE id

\* C10: integration assembly is total and deterministic over the tool
\* identifiers.  The mapping's keys are among email, calendar, github and
\* social; each recognized identifier contributes exactly one entry, the same
\* whatever else is selected (github: features pr_reviews, issue_tracking,
\* repo_analytics); unrecognized identifiers are ignored without error; and
\* the result does not depend on the order or repetition of the identifiers.
C10_IntegrationAssembly ==
  (integrations # NoValue) =>
    LET tools == answers.tools
        ids == Range(tools)
        IsRecognized(id) == id \in RecognizedTools
    IN /\ pc # "error"
       /\ DOMAIN integrations \subseteq {"email", "calendar", "github", "social"}
       /\ DOMAIN integrations = {IntegrationKey(id) : id \in ids \cap RecognizedTools}
       /\ \A id \in ids \cap RecognizedTools :
            integrations[IntegrationKey(id)] = configureIntegrations(<<id>>)[IntegrationKey(id)]
       /\ ("github" \in ids) =>
            integrations["github"] =
              [features |-> <<"pr_reviews", "issue_tracking", "repo_analytics">>]
       /\ integrations = configureIntegrations(SelectSeq(tools, IsRecognized))
       /\ \A other \in ToolSeqs :
            (Range(other) = ids) => (configureIntegrations(other) = integrations)

\* an unrecognized identifier and a repeated one: github alone is assembled
C10_Witness ==
  /\ integrations # NoValue
  /\ answers.tools = <<"slack", "github", "github">>
  /\ DOMAIN integrations = {"github"}

(***************************************************************************)
(* Optional fields of the Configuration.                                   *)
(***************************************************************************)
MorningBriefPath == <<"morning-brief.md">>

\* the blocks of the HEARTBEAT.md on disk, over its three sections
HeartbeatBlocks ==
  UNION {Range(fs.files[HeartbeatPath][sec]) : sec \in Sections}

\* C11: rendering never fails on absent optional fields.  No run of
\* generateSetup ends in a TypeError or a ReferenceError, and the documents it
\* has written carry the placeholders: with goals absent the priorities of
\* morning-brief.md are "- General productivity tasks" (and the goals
\* expression of the README is "- General automation"); an automation
\* without priority is rendered with priority "medium" in AGENTS.md and
\* HEARTBEAT.md; an automation without includes has no include line in
\* AGENTS.md and the fallback action in HEARTBEAT.md; absent demo_scenarios
\* and impact_metrics give empty sections in AGENTS.md.
C11_AbsentFieldsRender ==
  LET user == config.user
      t == config.template
  IN
  /\ err \notin {"TypeError", "ReferenceError"}
  /\ ~Has(user, "goals") =>
       /\ ReadmeGoals(user) = [placeholder |-> "- General automation"]
       /\ WrittenThisRun(MorningBriefPath) =>
            fs.files[MorningBriefPath].priorities =
              [placeholder |-> "- General productivity tasks"]
  /\ WrittenThisRun(AgentsPath) =>
       LET doc == fs.files[AgentsPath] IN
       /\ ~Has(t, "demo_scenarios") => doc.demo = << >>
       /\ ~Has(t, "impact_metrics") => doc.impact = << >>
       /\ Len(doc.focus) = Len(t.automations)
       /\ \A i \in 1..Len(t.automations) :
            /\ ~Has(t.automations[i], "priority") => doc.focus[i].priority = "medium"
            /\ ~Has(t.automations[i], "includes") => doc.focus[i].includes = << >>
  /\ WrittenThisRun(HeartbeatPath) =>
       \A b \in HeartbeatBlocks : \A a \in Automations :
         (a.name = b.key) =>
           /\ ~Has(a, "priority") => b.priority = "medium"
           /\ ~Has(a, "includes") => DOMAIN b.actions = {"fallback"}

\* a completed run on a Configuration without goals, demo_scenarios and
\* impact_metrics whose daily automation has neither priority nor includes
C11_Witness ==
  /\ pc = "done"
  /\ err = "none"
  /\ ~Has(config.user, "goals")
  /\ ~Has(config.template, "demo_scenarios")
  /\ ~Has(config.template, "impact_metrics")
  /\ WrittenThisRun(MorningBriefPath)
  /\ WrittenThisRun(AgentsPath)
  /\ \E b \in HeartbeatBlocks : \E a \in Automations :
       /\ a.name = b.key
       /\ ~Has(a, "priority")
       /\ ~Has(a, "includes")
       /\ b.priority = "medium"

(***************************************************************************)
(* The skills-configuration artifact of configureSkillsForRole.            *)
(***************************************************************************)
\* C12: the skills-configuration artifact has exactly one entry per skill
\* name of the template and no other entries, and every entry has
\* enabled = true; a list-form skill's entry is exactly {enabled: true}.
C12_OneEnabledEntryPerSkill ==
  WrittenThisRun(SkillsConfigPath) =>
    LET entries == fs.files[SkillsConfigPath].entries
        skills == config.template.skills
    IN
    /\ {e.name : e \in Range(entries)} = SkillNames(skills)
    /\ Len(entries) = Cardinality(SkillNames(skills))
    /\ \A e \in Range(entries) : e.spec.enabled = TRUE
    /\ IsArray(skills) => \A e \in Range(entries) : e.spec = [enabled |-> TRUE]

(***************************************************************************)
(* Failure of a filesystem call during workspace setup.                    *)
(***************************************************************************)
\* the step made a filesystem call, and the call failed
CallFailed == Len(log') = Len(log) + 1 /\ ~log'[Len(log')].ok

\* the step made a filesystem call
CallMade == Len(log') = Len(log) + 1

\* C13: a filesystem error is fatal, with no rollback.  A failed directory
\* creation or file write is the last call of its run, and the run has ended
\* in that error (no later step or write is attempted); the failing step
\* leaves the filesystem as it was, so every file written earlier in the run
\* stays in place with its content; and no step removes a file or changes
\* the content of a file other than the one its own call writes.
C13_FatalNoRollback ==
  /\ [](\A i \in 1..Len(log) :
          ~log[i].ok => i = Len(log) /\ pc = "error" /\ err = "FileSystemError")
  /\ [][CallFailed => fs' = fs /\ pc' = "error" /\ err' = "FileSystemError"]_vars
  /\ [][\A p \in DOMAIN fs.files :
          /\ p \in DOMAIN fs'.files
          /\ fs'.files[p] # fs.files[p] =>
               CallMade /\ log'[Len(log')] = [op |-> "write", path |-> p,
                                               ok |-> TRUE, hasDir |-> TRUE]]_vars

\* a run that wrote AGENTS.md and then failed on a later call, on a workspace
\* that held an unrelated file: both files are in place
C13_Witness ==
  /\ pc = "error"
  /\ err = "FileSystemError"
  /\ Len(log) >= 2
  /\ ~log[Len(log)].ok
  /\ WrittenThisRun(AgentsPath)
  /\ FileExists(AgentsPath)
  /\ fs.files[AgentsPath] = AgentsContent(config)
  /\ <<"notes.txt">> \in DOMAIN fs0.files
  /\ FileExists(<<"notes.txt">>)
  /\ fs.files[<<"notes.txt">>] = Stale

(***************************************************************************)
(* The end of runWizard.                                                   *)
(***************************************************************************)
\* C14: in non-test mode, once workspace setup has succeeded and
\* displaySuccess has been entered, runWizard terminates normally: it is
\* never in an error state after a fully successful workspace setup, and it
\* ends with the assembled Configuration and the whole success summary.
C14_ReturnsAfterSetup ==
  (caller = "runWizard" /\ ~options.testMode /\ shown # NoValue) =>
    /\ NoFailedCall
    /\ pc = "done"
    /\ err = "none"
    /\ config # NoValue

(***************************************************************************)
(* Test mode.                                                              *)
(***************************************************************************)
\* the positions of runWizard outside setupWorkspace and displaySuccess
AssemblySteps ==
  {"start", "prompt", "load", "integrations", "configure", "branch", "done", "error"}

\* C15: in test mode runWizard has no filesystem side effect.  With
\* options.testMode = true no filesystem call is ever made, setupWorkspace,
\* generateSetup, the skills steps and displaySuccess are never entered, the
\* filesystem is the initial one, and the Configuration runWizard returns is
\* the one generateConfiguration assembles from the answers, the template
\* and the integrations of the answers' tools, as in a non-test run.
C15_TestModeNoSideEffect ==
  options.testMode =>
    /\ fs = fs0
    /\ log = << >>
    /\ runs = 0
    /\ ret = NoValue
    /\ shown = NoValue
    /\ pc \in AssemblySteps
    /\ (pc = "done") =>
         /\ err = "none"
         /\ config = generateConfiguration(answers, template,
                                           configureIntegrations(answers.tools), today)
         /\ config.template = template
         /\ config.user.type = answers.userType

\* a test-mode run that returned its Configuration, on a workspace that
\* already held files
C15_Witness ==
  /\ options.testMode
  /\ pc = "done"
  /\ config # NoValue
  /\ config.integrations # EmptyObj
  /\ <<"notes.txt">> \in DOMAIN fs0.files
  /\ fs = fs0
  /\ log = << >>

=============================================================================
